---- MODULE Spec2Model ----
(***************************************************************************)
(* The request dispatcher of src/src/index.ts: module start-up (tool       *)
(* registration, transport selection in main()), and the async request     *)
(* listener passed to http.createServer.  One action models one run of     *)
(* the listener between two suspension points (Node runs it on a single    *)
(* thread, so the code between two awaits is atomic).                      *)
(*                                                                         *)
(* An optional value (a header that may be absent, undefined, null) is a   *)
(* sequence of length 0 or 1: <<>> is undefined/null, <<v>> is v.          *)
(***************************************************************************)
EXTENDS Integers, Sequences, FiniteSets, TLC

\* ---------------------------------------------------------------- bounds
NumReqs == 2
MaxChunks == 2
MaxStdioCalls == 2

Reqs == 1..NumReqs

\* ------------------------------------------------------------- constants
\* tokenPreview keeps this many characters of a longer credential.
PreviewLen == 20

\* ---------------------------------------------------------------- inputs
TokShort == "abc123"
TokEdge == "abcdefghij0123456789"
TokLong == "ABCDEFGHIJ0123456789Z"

ChunkA == "{\"id\":1,"
ChunkB == "\"method\":\"m\"}"
ChunkN == "[]"
ChunkI == "{\"method\":\"initialize\"}"

Undefined == <<>>
Some(v) == <<v>>

VARIABLES
    boot,        \* where the process is: "load", "main", "stdio", "http", "exit"
    exitCode,    \* the code the process exited with (optional)
    fatal,       \* the failure outside any request that occurred (optional)
    env,         \* process.env.MCP_TRANSPORT (optional) and process.argv's --stdio
    registered,  \* the names given to server.tool so far, in order
    connected,   \* the transports server.connect was called with, in order
    listeners,   \* number of HTTP servers created
    stdioSeen,   \* what current() returned to the tool handlers run in stdio mode
    stdioCalls,  \* number of tool handler invocations in stdio mode
    pc,          \* per request: "idle", "body", "engine", "done"
    req,         \* per request: its method, target, Token header, client conversation
    chunks,      \* per request: the body chunks pushed so far
    ended,       \* per request: the body stream was consumed to its end
    parsedBody,  \* per request: the local parsedBody
    heads,       \* per request: the response heads written, in order
    ctx,         \* per request: the credential bound in its async context
    engine,      \* per request: the calls of transport.handleRequest
    lastRead,    \* the most recent current() call inside a request: <<request, value>>
    logs,        \* per request: the lines written to the console
    sessionId,   \* the session of the one HTTP transport object (optional)
    issued       \* per request: the session id its response announced (optional)

vars == <<boot, exitCode, fatal, env, registered, connected, listeners,
          stdioSeen, stdioCalls,
          pc, req, chunks, ended, parsedBody, heads, ctx, engine,
          lastRead, logs, sessionId, issued>>

bootVars == <<boot, env, registered, connected, listeners>>
procVars == <<exitCode, fatal>>
stdioVars == <<stdioSeen, stdioCalls>>
transportVars == <<sessionId, issued>>
reqVars == <<pc, req, chunks, ended, parsedBody, heads, ctx, engine,
             lastRead, logs>>

\* ------------------------------------------------------- pure functions

\* String.prototype.substring(0, n)
Substring(s, n) == IF Len(s) <= n THEN s ELSE SubSeq(s, 1, n)

\* s contains t as a contiguous substring
Contains(s, t) ==
    \E i \in 1..(Len(s) + 1) :
        i + Len(t) - 1 <= Len(s) /\ SubSeq(s, i, i + Len(t) - 1) = t

IsPrefix(p, s) == Len(p) <= Len(s) /\ SubSeq(s, 1, Len(p)) = p

\* The path of a request target: the part before the first "?".
PathOf(u) ==
    LET qs == {i \in 1..Len(u) : SubSeq(u, i, i) = "?"}
    IN  IF qs = {} THEN u
        ELSE SubSeq(u, 1, (CHOOSE i \in qs : \A j \in qs : i <= j) - 1)

\* const url = req.url || '/'
UrlOf(u) == IF u = "" THEN "/" ELSE u

\* a listener without the route check
RouteNeverRejected(u) == FALSE

\* url !== '/' && url !== '/mcp'
RouteRejected(u) == UrlOf(u) # "/" /\ UrlOf(u) # "/mcp"

\* extractRefreshTokenFromHeaders(headers): the value of the credential
\* header, undefined when the header is absent.
ExtractRefreshTokenFromHeaders(h) == h.token

\* a check that only finds an absent header: refreshToken === undefined
TokenMissingUndefinedOnly(t) == t = Undefined

\* !refreshToken
TokenMissing(t) == t = Undefined \/ t[1] = ""

\* const tokenPreview = refreshToken.length > 20 ? substring(0, 20) + '...' : refreshToken
TokenPreview(t) ==
    IF Len(t) > PreviewLen THEN Substring(t, PreviewLen) \o "..." ELSE t

TokenLogLine(m, u, t) == m \o " " \o u \o " - Token: " \o TokenPreview(t)

\* a concatenation that puts each new chunk in front of the earlier ones
RECURSIVE ConcatReversed(_)
ConcatReversed(cs) == IF cs = <<>> THEN "" ELSE ConcatReversed(Tail(cs)) \o Head(cs)

\* Buffer.concat(chunks).toString('utf8')
RECURSIVE Concat(_)
Concat(cs) == IF cs = <<>> THEN "" ELSE Head(cs) \o Concat(Tail(cs))

\* JSON.parse on the texts the model's chunks can form: the only texts
\* among them that are JSON documents are ChunkA \o ChunkB (an object with
\* id 1 and a method), ChunkI (an initialize message) and ChunkN (an empty
\* array); any other throws.
JsonParse(text) ==
    IF text = ChunkA \o ChunkB
    THEN [ok |-> TRUE, type |-> "object", id |-> Some(1), method |-> Some("m")]
    ELSE IF text = ChunkI
    THEN [ok |-> TRUE, type |-> "object", id |-> Undefined, method |-> Some("initialize")]
    ELSE IF text = ChunkN
    THEN [ok |-> TRUE, type |-> "array", id |-> Undefined, method |-> Undefined]
    ELSE [ok |-> FALSE, type |-> "", id |-> Undefined, method |-> Undefined]

UndefinedBody == [kind |-> "undefined", text |-> "", type |-> "",
                  id |-> Undefined, method |-> Undefined]

\* a catch that swallows the failure and leaves parsedBody undefined
RawBodyDropped(body) == UndefinedBody

\* catch (e) { parsedBody = body }
RawBody(body) == [kind |-> "string", text |-> body, type |-> "",
                  id |-> Undefined, method |-> Undefined]

\* the value of parsedBody after lines 102-120 for a POST whose body text is body
ParseBody(body) ==
    IF body = "" THEN UndefinedBody
    ELSE LET j == JsonParse(body)
         IN  IF j.ok
             THEN [kind |-> "json", text |-> "", type |-> j.type,
                   id |-> j.id, method |-> j.method]
             ELSE RawBody(body)

\* ------------------------------------------------------------ start-up

\* const allTools = [...readTools, ...playTools, ...albumTools]
AllTools == <<"read", "play", "album">>

\* a selection that looks at the environment variable only
UseStdioEnvOnly == env.transport = Some("stdio")

\* process.env.MCP_TRANSPORT === 'stdio' || process.argv.includes('--stdio')
UseStdio == env.transport = Some("stdio") \/ env.flag

InitWith(transports) ==
    /\ boot = "load"
    /\ exitCode = Undefined
    /\ fatal = Undefined
    /\ env \in [transport : transports, flag : BOOLEAN]
    /\ registered = <<>>
    /\ connected = <<>>
    /\ listeners = 0
    /\ stdioSeen = {}
    /\ stdioCalls = 0
    /\ pc = [r \in Reqs |-> "idle"]
    /\ req = [r \in Reqs |-> [method |-> "", url |-> "", token |-> Undefined,
                              session |-> 0]]
    /\ chunks = [r \in Reqs |-> <<>>]
    /\ ended = [r \in Reqs |-> FALSE]
    /\ parsedBody = [r \in Reqs |-> UndefinedBody]
    /\ heads = [r \in Reqs |-> <<>>]
    /\ ctx = [r \in Reqs |-> Undefined]
    /\ engine = [r \in Reqs |-> <<>>]
    /\ lastRead = <<>>
    /\ logs = [r \in Reqs |-> <<>>]
    /\ sessionId = Undefined
    /\ issued = [r \in Reqs |-> Undefined]

\* allTools.forEach((tool) => server.tool(...)), one tool per step
RegisterTool ==
    /\ boot = "load"
    /\ Len(registered) < Len(AllTools)
    /\ registered' = Append(registered, AllTools[Len(registered) + 1])
    /\ UNCHANGED <<boot, env, connected, listeners>>
    /\ UNCHANGED procVars
    /\ UNCHANGED stdioVars
    /\ UNCHANGED transportVars
    /\ UNCHANGED reqVars

\* a main() called at the top of the module, before the forEach
MainCallableEarly == TRUE

\* main() is the last statement of the module: the forEach has run
MainCallable == Len(registered) = Len(AllTools)

\* main() is called once the module's top level has run
CallMain ==
    /\ boot = "load"
    /\ MainCallable
    /\ boot' = "main"
    /\ UNCHANGED <<env, registered, connected, listeners>>
    /\ UNCHANGED procVars
    /\ UNCHANGED stdioVars
    /\ UNCHANGED transportVars
    /\ UNCHANGED reqVars

\* if (useStdio) { await server.connect(new StdioServerTransport()); return }
MainStdio ==
    /\ boot = "main"
    /\ fatal = Undefined
    /\ UseStdio
    /\ connected' = Append(connected, "stdio")
    /\ boot' = "stdio"
    /\ UNCHANGED <<env, registered, listeners>>
    /\ UNCHANGED procVars
    /\ UNCHANGED stdioVars
    /\ UNCHANGED transportVars
    /\ UNCHANGED reqVars

\* await server.connect(new StreamableHTTPServerTransport(...));
\* http.createServer(listener); httpServer.listen(port, host)
MainHttp ==
    /\ boot = "main"
    /\ fatal = Undefined
    /\ ~UseStdio
    /\ connected' = Append(connected, "http")
    /\ listeners' = listeners + 1
    /\ boot' = "http"
    /\ UNCHANGED <<env, registered>>
    /\ UNCHANGED procVars
    /\ UNCHANGED stdioVars
    /\ UNCHANGED transportVars
    /\ UNCHANGED reqVars

\* a handler that logs the failure and lets the process go on
OnFatalLogOnly(cause) == [boot |-> boot, code |-> Undefined]

\* httpServer.on('error', ...) and main().catch(...): console.error, then
\* process.exit(1)
OnFatal(cause) == [boot |-> "exit", code |-> Some(1)]

\* server.connect rejects, in either branch of main(): main() rejects and
\* main().catch runs
ConnectFails ==
    /\ boot = "main"
    /\ fatal = Undefined
    /\ fatal' = Some("startup")
    /\ boot' = OnFatal("startup").boot
    /\ exitCode' = OnFatal("startup").code
    /\ UNCHANGED <<env, registered, connected, listeners>>
    /\ UNCHANGED stdioVars
    /\ UNCHANGED transportVars
    /\ UNCHANGED reqVars

\* the HTTP server emits 'error' (the port cannot be bound, or later)
ListenerError ==
    /\ boot = "http"
    /\ fatal = Undefined
    /\ fatal' = Some("listener")
    /\ boot' = OnFatal("listener").boot
    /\ exitCode' = OnFatal("listener").code
    /\ UNCHANGED <<env, registered, connected, listeners>>
    /\ UNCHANGED stdioVars
    /\ UNCHANGED transportVars
    /\ UNCHANGED reqVars

\* The credential context a tool handler finds in stdio mode: the stdio
\* branch of main() connects the transport without runWithRefreshToken, so
\* the handler runs outside any run.
StdioContext == Undefined

\* the engine invokes a tool handler for a message read from stdin
StdioToolCall ==
    /\ boot = "stdio"
    /\ stdioCalls < MaxStdioCalls
    /\ stdioCalls' = stdioCalls + 1
    /\ stdioSeen' = stdioSeen \cup {StdioContext}
    /\ UNCHANGED bootVars
    /\ UNCHANGED procVars
    /\ UNCHANGED reqVars
    /\ UNCHANGED transportVars

\* ------------------------------------------------- the request listener

ErrorHead(status, code) ==
    [by |-> "dispatcher", status |-> status, code |-> code, id |-> Undefined]

EngineHead(status) ==
    [by |-> "engine", status |-> status, code |-> 0, id |-> Undefined]

\* res.headersSent
HeadersSent(r) == heads[r] # <<>>

\* A refreshToken kept in one variable shared by all listener runs: a run
\* that resumes after a later request arrived finds that request's value.
SharedRefreshToken(r, rq) ==
    LET later == {q \in Reqs : q > r /\ pc[q] # "idle"}
    IN  IF later = {} THEN ExtractRefreshTokenFromHeaders(rq)
        ELSE ExtractRefreshTokenFromHeaders(
                 req[CHOOSE q \in later : \A q2 \in later : q2 <= q])

\* A refreshToken cached on the session: the first credential the session
\* presented is used for its later requests.
SessionRefreshToken(r, rq) ==
    LET earlier == {q \in Reqs : /\ q < r
                                 /\ pc[q] # "idle"
                                 /\ req[q].session = rq.session
                                 /\ req[q].token # Undefined
                                 /\ req[q].token # Some("")}
    IN  IF earlier = {} THEN ExtractRefreshTokenFromHeaders(rq)
        ELSE req[CHOOSE q \in earlier : \A q2 \in earlier : q <= q2].token

\* the local const refreshToken of the listener run of request r, whose
\* request is rq: extracted from that request's own headers
RefreshToken(r, rq) == ExtractRefreshTokenFromHeaders(rq)

\* an outer catch that answers 500 without looking at res.headersSent
MaySend500Always(r) == TRUE

\* if (!res.headersSent) in the outer catch
MaySend500(r) == ~HeadersSent(r)

\* A listener without the outer try/catch: the failure rejects the promise
\* of the async listener, and the unhandled rejection ends the process.
AfterUncaughtFailure(r) == [boot |-> "exit", code |-> Some(1)]

\* What a failure of request r's listener run does to the process: the
\* outer try/catch encloses the whole listener, so nothing escapes it.
AfterRequestFailure(r) == [boot |-> boot, code |-> exitCode]

\* the outer catch: console.error, then the 500 envelope unless the head is out
CaughtHeads(r) ==
    IF MaySend500(r) THEN Append(heads[r], ErrorHead(500, -32603)) ELSE heads[r]

\* runWithRefreshToken(refreshToken, fn): binds the credential in the async
\* context of the call for the whole extent of fn.
RunWithRefreshToken(r, token) == [ctx EXCEPT ![r] = token]

\* current(): the credential bound in the caller's async context
Current(r) == ctx[r]

\* await runWithRefreshToken(refreshToken, async () => {
\*   await transport.handleRequest(req, res, parsedBody) })
\* up to the first suspension inside handleRequest
Delegate(r, body) ==
    /\ ctx' = RunWithRefreshToken(r, RefreshToken(r, req[r]))
    /\ engine' = [engine EXCEPT ![r] = Append(@, [payload |-> body, ctx |-> ctx'[r]])]
    /\ pc' = [pc EXCEPT ![r] = "engine"]

\* a run of runWithRefreshToken that encloses the body read as well
BodyReadContextBound(tok) == tok

\* The credential context while the listener reads the body: the for await
\* loop runs before runWithRefreshToken is called, outside any run.
BodyReadContext(tok) == Undefined

\* Client conversations are numbered in their order of first contact: a
\* request belongs to one already seen or opens the next one.
SessionsFor(r) ==
    {k \in 1..NumReqs : k = 1 \/ \E q \in Reqs : q < r /\ req[q].session >= k - 1}

\* The listener from its start to its first suspension: the route check, the
\* credential check, the token log, and for a request that is not a POST the
\* delegation.  Requests are numbered in their order of arrival.
Request(r, m, u, t, s) ==
    /\ boot = "http"
    /\ listeners > 0
    /\ pc[r] = "idle"
    /\ \A q \in Reqs : q < r => pc[q] # "idle"
    /\ s \in SessionsFor(r)
    /\ LET rq == [method |-> m, url |-> u, token |-> t, session |-> s]
           tok == RefreshToken(r, rq)
       IN  /\ req' = [req EXCEPT ![r] = rq]
           /\ IF RouteRejected(u)
              THEN /\ heads' = [heads EXCEPT ![r] = Append(@, ErrorHead(404, -32000))]
                   /\ pc' = [pc EXCEPT ![r] = "done"]
                   /\ UNCHANGED <<logs, ctx, engine>>
              ELSE IF TokenMissing(tok)
              THEN /\ heads' = [heads EXCEPT ![r] = Append(@, ErrorHead(400, -32000))]
                   /\ pc' = [pc EXCEPT ![r] = "done"]
                   /\ UNCHANGED <<logs, ctx, engine>>
              ELSE /\ logs' = [logs EXCEPT ![r] =
                                   Append(@, TokenLogLine(m, UrlOf(u), tok[1]))]
                   /\ UNCHANGED heads
                   /\ IF m = "POST"
                      THEN /\ pc' = [pc EXCEPT ![r] = "body"]
                           /\ ctx' = [ctx EXCEPT ![r] = BodyReadContext(tok)]
                           /\ UNCHANGED engine
                      ELSE /\ ctx' = RunWithRefreshToken(r, tok)
                           /\ engine' = [engine EXCEPT ![r] =
                                  Append(@, [payload |-> UndefinedBody, ctx |-> ctx'[r]])]
                           /\ pc' = [pc EXCEPT ![r] = "engine"]
    /\ UNCHANGED <<chunks, ended, parsedBody, lastRead>>
    /\ UNCHANGED bootVars
    /\ UNCHANGED procVars
    /\ UNCHANGED stdioVars
    /\ UNCHANGED transportVars

\* for await (const chunk of req) chunks.push(chunk)
BodyChunk(r, c) ==
    /\ boot = "http"
    /\ pc[r] = "body"
    /\ Len(chunks[r]) < MaxChunks
    /\ chunks' = [chunks EXCEPT ![r] = Append(@, c)]
    /\ UNCHANGED <<pc, req, ended, parsedBody, heads, ctx, engine, lastRead, logs>>
    /\ UNCHANGED bootVars
    /\ UNCHANGED procVars
    /\ UNCHANGED stdioVars
    /\ UNCHANGED transportVars

\* the body stream ends: concatenate, decode, log the MCP method, delegate
BodyEnd(r) ==
    /\ boot = "http"
    /\ pc[r] = "body"
    /\ ended' = [ended EXCEPT ![r] = TRUE]
    /\ LET body == ParseBody(Concat(chunks[r]))
       IN  /\ parsedBody' = [parsedBody EXCEPT ![r] = body]
           /\ logs' = [logs EXCEPT ![r] =
                 IF body.kind = "json" /\ body.type = "object" /\ body.method # Undefined
                 THEN Append(@, "MCP method: " \o body.method[1])
                 ELSE @]
           /\ Delegate(r, body)
    /\ UNCHANGED <<req, chunks, heads, lastRead>>
    /\ UNCHANGED bootVars
    /\ UNCHANGED procVars
    /\ UNCHANGED stdioVars
    /\ UNCHANGED transportVars

\* the body stream fails (the client aborts): for await throws into the outer catch
BodyError(r) ==
    /\ boot = "http"
    /\ pc[r] = "body"
    /\ heads' = [heads EXCEPT ![r] = CaughtHeads(r)]
    /\ logs' = [logs EXCEPT ![r] = Append(@, "Error handling request")]
    /\ pc' = [pc EXCEPT ![r] = "done"]
    /\ boot' = AfterRequestFailure(r).boot
    /\ exitCode' = AfterRequestFailure(r).code
    /\ UNCHANGED <<req, chunks, ended, parsedBody, ctx, engine, lastRead>>
    /\ UNCHANGED <<fatal, env, registered, connected, listeners>>
    /\ UNCHANGED stdioVars
    /\ UNCHANGED transportVars

\* inside handleRequest: code under the call (a tool handler) reads current()
EngineToolCall(r) ==
    /\ boot = "http"
    /\ pc[r] = "engine"
    /\ lastRead' = <<r, Current(r)>>
    /\ UNCHANGED <<pc, req, chunks, ended, parsedBody, heads, ctx, engine, logs>>
    /\ UNCHANGED bootVars
    /\ UNCHANGED procVars
    /\ UNCHANGED stdioVars
    /\ UNCHANGED transportVars

\* the payload handed to the engine for request r is an initialize message
IsInitialize(r) ==
    /\ engine[r] # <<>>
    /\ engine[r][1].payload.kind = "json"
    /\ engine[r][1].payload.method = Some("initialize")

\* Inside handleRequest, for an initialize message: every request goes to
\* the one transport object made in main(), which holds one session.  The
\* first initialize runs sessionIdGenerator and the response announces the
\* session; while the transport has a session a further initialize is
\* rejected with 400.  Ids are drawn fresh: the id made for request r is r.
EngineInitialize(r) ==
    /\ boot = "http"
    /\ pc[r] = "engine"
    /\ IsInitialize(r)
    /\ ~HeadersSent(r)
    /\ IF sessionId = Undefined
       THEN /\ sessionId' = Some(r)
            /\ issued' = [issued EXCEPT ![r] = Some(r)]
            /\ heads' = [heads EXCEPT ![r] = Append(@, EngineHead(200))]
       ELSE /\ heads' = [heads EXCEPT ![r] = Append(@, EngineHead(400))]
            /\ UNCHANGED <<sessionId, issued>>
    /\ UNCHANGED <<pc, req, chunks, ended, parsedBody, ctx, engine, lastRead, logs>>
    /\ UNCHANGED bootVars
    /\ UNCHANGED procVars
    /\ UNCHANGED stdioVars

\* inside handleRequest: the engine starts the response
EngineWriteHead(r, status) ==
    /\ boot = "http"
    /\ pc[r] = "engine"
    /\ ~HeadersSent(r)
    /\ heads' = [heads EXCEPT ![r] = Append(@, EngineHead(status))]
    /\ UNCHANGED <<pc, req, chunks, ended, parsedBody, ctx, engine, lastRead, logs>>
    /\ UNCHANGED bootVars
    /\ UNCHANGED procVars
    /\ UNCHANGED stdioVars
    /\ UNCHANGED transportVars

\* handleRequest resolves: the run ends, "Request completed successfully"
EngineReturn(r) ==
    /\ boot = "http"
    /\ pc[r] = "engine"
    /\ ctx' = [ctx EXCEPT ![r] = Undefined]
    /\ logs' = [logs EXCEPT ![r] = Append(@, "Request completed successfully")]
    /\ pc' = [pc EXCEPT ![r] = "done"]
    /\ UNCHANGED <<req, chunks, ended, parsedBody, heads, engine, lastRead>>
    /\ UNCHANGED bootVars
    /\ UNCHANGED procVars
    /\ UNCHANGED stdioVars
    /\ UNCHANGED transportVars

\* handleRequest rejects: the run ends, the inner catch logs and rethrows,
\* the outer catch logs and answers 500 unless the head is out
EngineThrow(r) ==
    /\ boot = "http"
    /\ pc[r] = "engine"
    /\ ctx' = [ctx EXCEPT ![r] = Undefined]
    /\ logs' = [logs EXCEPT ![r] =
                    Append(Append(@, "Error in request handler"), "Error handling request")]
    /\ heads' = [heads EXCEPT ![r] = CaughtHeads(r)]
    /\ pc' = [pc EXCEPT ![r] = "done"]
    /\ boot' = AfterRequestFailure(r).boot
    /\ exitCode' = AfterRequestFailure(r).code
    /\ UNCHANGED <<req, chunks, ended, parsedBody, engine, lastRead>>
    /\ UNCHANGED <<fatal, env, registered, connected, listeners>>
    /\ UNCHANGED stdioVars
    /\ UNCHANGED transportVars

\* The container's health check: GET / on the listening port without any
\* header; process.exit(r.statusCode === 404 ? 0 : 1)
HealthCheckExit(statusCode) == IF statusCode = 404 THEN 0 ELSE 1

IsHealthProbe(rq) == rq.method = "GET" /\ rq.url = "/" /\ rq.token = Undefined

\* ------------------------------------------------------ specifications

Startup ==
    \/ RegisterTool
    \/ CallMain
    \/ MainStdio
    \/ MainHttp
    \/ ConnectFails
    \/ ListenerError
    \/ StdioToolCall

\* Spec: NumReqs requests in flight together, each of them a GET or a POST
\* with an empty body, with or without one of two credentials.
Methods == {"GET", "POST"}
Urls == {"/mcp"}
Tokens == {Undefined, Some(TokShort), Some(TokLong)}
Sessions == 1..NumReqs
EngineStatuses == {200}

Init == InitWith({Undefined, Some("stdio")})

Next ==
    \/ Startup
    \/ \E r \in Reqs, m \in Methods, u \in Urls, t \in Tokens, s \in Sessions :
           Request(r, m, u, t, s)
    \/ \E r \in Reqs : BodyEnd(r)
    \/ \E r \in Reqs : BodyError(r)
    \/ \E r \in Reqs : EngineToolCall(r)
    \/ \E r \in Reqs, st \in EngineStatuses : EngineWriteHead(r, st)
    \/ \E r \in Reqs : EngineReturn(r)
    \/ \E r \in Reqs : EngineThrow(r)

Spec == Init /\ [][Next]_vars

\* SpecOne: a single request, over every kind of input: targets with and
\* without a query string, absent, empty, short and long credentials, bodies
\* of up to MaxChunks chunks.
MethodsOne == {"GET", "POST"}
UrlsOne == {"/", "/mcp", "/mcp?x=1", "/?", "/nope", "/nope?x=1"}
TokensOne == {Undefined, Some(""), Some(TokShort), Some(TokEdge), Some(TokLong)}
ChunksOne == {ChunkA, ChunkB, ChunkN}
EngineStatusesOne == {200, 400}

InitOne == InitWith({Undefined, Some("stdio"), Some("http")})

NextOne ==
    \/ Startup
    \/ \E m \in MethodsOne, u \in UrlsOne, t \in TokensOne, s \in Sessions :
           Request(1, m, u, t, s)
    \/ \E c \in ChunksOne : BodyChunk(1, c)
    \/ BodyEnd(1)
    \/ BodyError(1)
    \/ EngineToolCall(1)
    \/ \E st \in EngineStatusesOne : EngineWriteHead(1, st)
    \/ EngineReturn(1)
    \/ EngineThrow(1)

SpecOne == InitOne /\ [][NextOne]_vars

\* SpecSession: NumReqs POST requests with one credential, each the
\* initialize message of a client conversation or a part of one.
InitSession == InitWith({Undefined})

NextSession ==
    \/ Startup
    \/ \E r \in Reqs, s \in Sessions : Request(r, "POST", "/mcp", Some(TokShort), s)
    \/ \E r \in Reqs : BodyChunk(r, ChunkI)
    \/ \E r \in Reqs : BodyEnd(r)
    \/ \E r \in Reqs : EngineInitialize(r)
    \/ \E r \in Reqs : EngineReturn(r)

SpecSession == InitSession /\ [][NextSession]_vars

\* ---------------------------------------------------------------- claims

Arrived(r) == pc[r] # "idle"

\* the request passed the route check of the listener
RouteAccepted(r) == UrlOf(req[r].url) = "/" \/ UrlOf(req[r].url) = "/mcp"

HasCredential(r) == req[r].token # Undefined /\ req[r].token # Some("")

\* the heads the dispatcher itself wrote for request r
DispatcherHeads(r) == {i \in DOMAIN heads[r] : heads[r][i].by = "dispatcher"}

Answered(r, status) ==
    \E i \in DispatcherHeads(r) :
        /\ heads[r][i].status = status
        /\ heads[r][i].id = Undefined

\* the listener of request r ended in the outer catch
Failed(r) == \E i \in DOMAIN logs[r] : logs[r][i] = "Error handling request"

\* handleRequest rejected for request r
EngineFailed(r) == \E i \in DOMAIN logs[r] : logs[r][i] = "Error in request handler"

\* C1: whatever the interleaving of the requests in flight, the credential
\* read inside a request's delegated call is that request's own: while the
\* call of request r executes, current() yields the credential of r's own
\* header, and so did the most recent read, whichever request made it.
C1_Isolation ==
    /\ \A r \in Reqs :
           pc[r] = "engine" => HasCredential(r) /\ Current(r) = req[r].token
    /\ lastRead # <<>> =>
           /\ HasCredential(lastRead[1])
           /\ lastRead[2] = req[lastRead[1]].token

\* C1's case: request 2, with another credential, was delegated and finished
\* while request 1 was suspended; request 1 then resumed and read.
C1_Witness ==
    /\ pc[1] = "engine"
    /\ req[1].method = "POST"
    /\ pc[2] = "done"
    /\ engine[2] # <<>>
    /\ ~Failed(2)
    /\ req[1].token # req[2].token
    /\ lastRead = <<1, req[1].token>>

\* C2: a request that passed the route check and whose credential header is
\* absent or empty is answered 400 with code -32000 and id null, and nothing
\* else happened for it: no body chunk was read, no credential context was
\* bound, the engine was not invoked, no read was made inside it.
C2_MissingCredential ==
    \A r \in Reqs :
        (Arrived(r) /\ RouteAccepted(r) /\ ~HasCredential(r)) =>
            /\ pc[r] = "done"
            /\ heads[r] = <<[by |-> "dispatcher", status |-> 400,
                             code |-> -32000, id |-> Undefined]>>
            /\ chunks[r] = <<>>
            /\ ~ended[r]
            /\ ctx[r] = Undefined
            /\ engine[r] = <<>>
            /\ (lastRead # <<>> => lastRead[1] # r)

\* C2's case: a POST to /mcp with an empty credential header was answered.
C2_Witness ==
    \E r \in Reqs :
        /\ pc[r] = "done"
        /\ req[r].method = "POST"
        /\ req[r].url = "/mcp"
        /\ req[r].token = Some("")
        /\ Answered(r, 400)

\* C3: the dispatcher answers 404 (code -32000, id null) exactly when the
\* path of the request target, its query string left aside, is neither /
\* nor /mcp, and a request answered 404 never reaches the engine.
C3_RouteByPath ==
    \A r \in Reqs :
        Arrived(r) =>
            /\ Answered(r, 404) <=> PathOf(req[r].url) \notin {"/", "/mcp"}
            /\ Answered(r, 404) => engine[r] = <<>>

\* C4: the health check's probe is answered with a status on which the
\* health check exits 0.
C4_HealthProbeHealthy ==
    \A r \in Reqs :
        (Arrived(r) /\ IsHealthProbe(req[r])) =>
            /\ heads[r] # <<>>
            /\ HealthCheckExit(heads[r][1].status) = 0

\* C5: every tool handler invocation finds a credential context: in stdio
\* mode every read made by a handler yields a credential, and in HTTP mode
\* every read yields the credential of the invoking request.
C5_ToolsHaveContext ==
    /\ \A v \in stdioSeen : v # Undefined
    /\ lastRead # <<>> => lastRead[2] # Undefined /\ lastRead[2] = req[lastRead[1]].token

\* C6: an error envelope of the dispatcher carries id null only when no id
\* was decoded from the request; when the body was decoded and carried an
\* id, the envelope echoes it.
C6_IdEchoed ==
    \A r \in Reqs :
        \A i \in DispatcherHeads(r) :
            heads[r][i].id = IF parsedBody[r].kind = "json" THEN parsedBody[r].id
                             ELSE Undefined

\* C7: no line logged for a request contains the request's complete credential.
C7_NoFullCredentialLogged ==
    \A r \in Reqs :
        HasCredential(r) =>
            \A i \in DOMAIN logs[r] : ~Contains(logs[r][i], req[r].token[1])

\* C8: a request gets at most one response head; the dispatcher writes none
\* but 404, 400 and 500 and none once a head is out; a request that failed
\* while its body was read or inside the delegated call has exactly one
\* head, and if that head is the dispatcher's it is 500 with code -32603
\* and id null.
C8_FailureResponse ==
    \A r \in Reqs :
        /\ Cardinality(DispatcherHeads(r)) <= 1
        /\ DispatcherHeads(r) # {} => Len(heads[r]) = 1
        /\ \A i \in DispatcherHeads(r) : heads[r][i].status \in {404, 400, 500}
        /\ Failed(r) =>
               /\ Len(heads[r]) = 1
               /\ heads[r][1].by = "dispatcher" =>
                      heads[r][1] = [by |-> "dispatcher", status |-> 500,
                                     code |-> -32603, id |-> Undefined]

\* C8's case: the delegated call failed after the engine had started the
\* response, and the engine's head is still the only one.
C8_Witness ==
    \E r \in Reqs :
        /\ pc[r] = "done"
        /\ EngineFailed(r)
        /\ Len(heads[r]) = 1
        /\ heads[r][1].by = "engine"

\* C9: for a POST with a credential that passed the route check and whose
\* body, read to its end, is not empty and is not JSON, the engine was
\* invoked exactly once, inside the credential context of the request, with
\* the raw body text as payload, and the dispatcher wrote no response of its
\* own unless that call failed.
C9_RawBodyDelegated ==
    \A r \in Reqs :
        (/\ req[r].method = "POST"
         /\ ended[r]
         /\ Concat(chunks[r]) # ""
         /\ ~JsonParse(Concat(chunks[r])).ok) =>
            /\ RouteAccepted(r) /\ HasCredential(r)
            /\ Len(engine[r]) = 1
            /\ engine[r][1].payload.kind = "string"
            /\ engine[r][1].payload.text = Concat(chunks[r])
            /\ engine[r][1].ctx = req[r].token
            /\ DispatcherHeads(r) # {} => EngineFailed(r)

\* C9's case: a body of two chunks that do not form a JSON document was
\* handed to the engine.
C9_Witness ==
    \E r \in Reqs :
        /\ pc[r] = "engine"
        /\ chunks[r] = <<ChunkB, ChunkA>>
        /\ Len(engine[r]) = 1

\* C10: the credential under which a request is handled is the one of its
\* own header, whatever the earlier requests of its session or of another
\* one carried; a request without a credential that passed the route check
\* is answered 400 and not delegated, also after a request of the same
\* session that carried a valid one.
C10_PerRequestCredential ==
    \A r \in Reqs :
        /\ \A i \in DOMAIN engine[r] :
               HasCredential(r) /\ engine[r][i].ctx = req[r].token
        /\ \A q \in Reqs :
               (/\ q < r
                /\ req[q].session = req[r].session
                /\ HasCredential(q)
                /\ Arrived(r)
                /\ RouteAccepted(r)
                /\ ~HasCredential(r)) =>
                   engine[r] = <<>> /\ Answered(r, 400)

\* C10's case: two requests of one session carried different credentials
\* and both were delegated.
C10_Witness ==
    \E q, r \in Reqs :
        /\ q < r
        /\ req[q].session = req[r].session
        /\ req[q].token # req[r].token
        /\ engine[q] # <<>>
        /\ engine[r] # <<>>
        /\ pc[q] = "done"

\* C11: once a request has failed (its body read was aborted or its
\* delegated call failed) and nothing fatal happened to the process, the
\* process has not exited and still listens, the tool registry is complete,
\* and every other request is untouched: one still in flight holds its own
\* credential and can go on to its end, one that ended without failing got
\* no 500 from the dispatcher, and the next request can still arrive.
C11_FailureContained ==
    \A r \in Reqs :
        (Failed(r) /\ fatal = Undefined) =>
            /\ boot = "http"
            /\ exitCode = Undefined
            /\ listeners > 0
            /\ registered = AllTools
            /\ \A q \in Reqs \ {r} :
                   /\ pc[q] = "idle" /\ (\A p \in Reqs : p < q => Arrived(p)) =>
                          ENABLED Request(q, "GET", "/mcp", Some(TokShort), 1)
                   /\ pc[q] = "body" => ENABLED BodyEnd(q)
                   /\ pc[q] = "engine" =>
                          /\ Current(q) = req[q].token
                          /\ ENABLED EngineToolCall(q)
                          /\ ENABLED EngineReturn(q)
                   /\ pc[q] = "done" /\ ~Failed(q) => ~Answered(q, 500)

\* C11's case: request 2 failed while request 1, which carries another
\* credential, was inside its delegated call; request 1 read its credential.
C11_Witness ==
    /\ Failed(2)
    /\ pc[1] = "engine"
    /\ HasCredential(2)
    /\ req[1].token # req[2].token
    /\ lastRead = <<1, req[1].token>>

\* C12: every tool is registered before main() is entered, before a
\* transport is connected and before a request or a stdio message is
\* dispatched; from then on the registry is the complete list.
C12_RegisteredBeforeConnect ==
    /\ boot # "load" => registered = AllTools
    /\ connected # <<>> => registered = AllTools
    /\ stdioCalls > 0 => registered = AllTools
    /\ \A r \in Reqs : Arrived(r) => registered = AllTools

\* C12's case: the HTTP transport is connected and a request was dispatched.
C12_Witness ==
    /\ connected = <<"http">>
    /\ Arrived(1)
    /\ engine[1] # <<>>

\* C14: at most one transport is ever connected; once start-up is over
\* exactly one is, the stdio one exactly when MCP_TRANSPORT is stdio or the
\* --stdio flag is given; with the stdio transport there is no HTTP listener
\* and no HTTP request, with the HTTP one no stdio message.
C14_TransportFixed ==
    /\ Len(connected) <= 1
    /\ boot \in {"stdio", "http"} =>
           /\ Len(connected) = 1
           /\ connected[1] = "stdio" <=> (env.transport = Some("stdio") \/ env.flag)
           /\ connected[1] = "http" <=> ~(env.transport = Some("stdio") \/ env.flag)
           /\ boot = connected[1]
    /\ connected = <<"stdio">> =>
           /\ listeners = 0
           /\ \A r \in Reqs : ~Arrived(r)
    /\ connected = <<"http">> => stdioCalls = 0 /\ listeners = 1

\* C14's case: the flag is given while MCP_TRANSPORT names the other
\* transport, and the stdio transport serves messages.
C14_Witness ==
    /\ env.flag
    /\ env.transport = Some("http")
    /\ connected = <<"stdio">>
    /\ stdioCalls > 0

\* C18: after an error of the HTTP listener or a failure of main() the
\* process has exited with code 1; without one of them the process has not
\* exited, whatever requests failed.
C18_ExitOnFatal ==
    /\ fatal # Undefined => boot = "exit" /\ exitCode = Some(1)
    /\ fatal = Undefined => boot # "exit" /\ exitCode = Undefined

\* C18's case: a request failed, the process went on, and a listener error
\* then ended it.
C18_Witness ==
    /\ fatal = Some("listener")
    /\ Failed(1)
    /\ exitCode = Some(1)

\* C15: a request has a credential context bound exactly while its
\* delegated call runs; the call runs only for a request that passed the
\* route check and the credential check and, for a POST, whose body was read
\* to its end, and the context is the request's own credential; no context
\* is bound for a request the dispatcher answered itself (404, 400, 500);
\* once every request has completed no context is bound at all.
C15_ContextLifetime ==
    /\ \A r \in Reqs :
           /\ Current(r) # Undefined <=> pc[r] = "engine"
           /\ pc[r] = "engine" =>
                  /\ RouteAccepted(r)
                  /\ HasCredential(r)
                  /\ Current(r) = req[r].token
                  /\ req[r].method = "POST" => ended[r]
           /\ DispatcherHeads(r) # {} => Current(r) = Undefined
    /\ (\A r \in Reqs : pc[r] = "done") => \A r \in Reqs : Current(r) = Undefined

\* C15's case: every request has completed, the first by a failure of its
\* delegated call answered 500, the second a POST whose call returned.
C15_Witness ==
    /\ \A r \in Reqs : pc[r] = "done"
    /\ EngineFailed(1)
    /\ Answered(1, 500)
    /\ req[2].method = "POST"
    /\ ended[2]
    /\ engine[2] # <<>>
    /\ ~Failed(2)

\* the three outcomes of C16 that request r has had so far
Outcomes(r) ==
    {o \in {"404", "400", "delegated"} :
        \/ o = "404" /\ Answered(r, 404)
        \/ o = "400" /\ Answered(r, 400)
        \/ o = "delegated" /\ engine[r] # <<>>}

\* the body read of request r failed
BodyReadFailed(r) == Failed(r) /\ ~EngineFailed(r)

\* C16 as stated: every completed request had exactly one of the outcomes
\* 404, 400 and delegated; a request to another target than / and /mcp is
\* answered 404 and never 400; the engine is invoked at most once and only
\* after both checks passed.
C16_ExactlyOneOutcome ==
    \A r \in Reqs :
        /\ pc[r] = "done" => Cardinality(Outcomes(r)) = 1
        /\ (Arrived(r) /\ ~RouteAccepted(r)) => Outcomes(r) = {"404"}
        /\ Len(engine[r]) <= 1
        /\ engine[r] # <<>> => RouteAccepted(r) /\ HasCredential(r)

\* C16, amended: a request has at most one of the outcomes 404, 400 and
\* delegated; a completed request has exactly one unless its body read
\* failed, and then it has none and is answered 500; a request to another
\* target than / and /mcp is answered 404 and never 400, with or without a
\* credential; a request that passed the route check without a credential is
\* answered 400; the engine is invoked at most once and only after both
\* checks passed.
C16_OutcomeOrder ==
    \A r \in Reqs :
        /\ Cardinality(Outcomes(r)) <= 1
        /\ (pc[r] = "done" /\ ~BodyReadFailed(r)) => Cardinality(Outcomes(r)) = 1
        /\ (pc[r] = "done" /\ BodyReadFailed(r)) =>
               /\ Outcomes(r) = {}
               /\ Answered(r, 500)
               /\ req[r].method = "POST"
        /\ (Arrived(r) /\ ~RouteAccepted(r)) => Outcomes(r) = {"404"}
        /\ (Arrived(r) /\ RouteAccepted(r) /\ ~HasCredential(r)) => Outcomes(r) = {"400"}
        /\ Len(engine[r]) <= 1
        /\ engine[r] # <<>> => RouteAccepted(r) /\ HasCredential(r)

\* C16's case: a request to another target, without a credential, was
\* answered 404.
C16_Witness ==
    \E r \in Reqs :
        /\ pc[r] = "done"
        /\ req[r].url = "/nope"
        /\ req[r].token = Undefined
        /\ Answered(r, 404)
        /\ engine[r] = <<>>

\* the chunks cs[1..n] joined in their order of arrival
RECURSIVE JoinUpTo(_, _)
JoinUpTo(cs, n) == IF n = 0 THEN "" ELSE JoinUpTo(cs, n - 1) \o cs[n]

\* C17: the engine is not invoked while the body of a POST is being read;
\* when it is invoked for a POST the body stream has ended, and the payload
\* is undefined if no byte arrived and the decoded document if the chunks,
\* joined in their order of arrival, form a JSON document; for another
\* method no chunk is read and the payload is undefined.
C17_PayloadFromWholeBody ==
    \A r \in Reqs :
        /\ pc[r] = "body" => engine[r] = <<>> /\ ~ended[r]
        /\ \A i \in DOMAIN engine[r] :
               LET payload == engine[r][i].payload
                   text == JoinUpTo(chunks[r], Len(chunks[r]))
               IN  IF req[r].method = "POST"
                   THEN /\ ended[r]
                        /\ HasCredential(r)
                        /\ text = "" => payload.kind = "undefined"
                        /\ text = ChunkA \o ChunkB =>
                               /\ payload.kind = "json"
                               /\ payload.type = "object"
                               /\ payload.id = Some(1)
                               /\ payload.method = Some("m")
                        /\ text = ChunkN =>
                               payload.kind = "json" /\ payload.type = "array"
                        /\ payload.kind = "json" => text \in {ChunkA \o ChunkB, ChunkN}
                   ELSE /\ payload.kind = "undefined"
                        /\ chunks[r] = <<>>
                        /\ ~ended[r]

\* C17's case: the body arrived in two chunks that only together form a
\* JSON document, and the engine got the decoded document.
C17_Witness ==
    \E r \in Reqs :
        /\ chunks[r] = <<ChunkA, ChunkB>>
        /\ Len(engine[r]) = 1
        /\ engine[r][1].payload.kind = "json"
        /\ engine[r][1].payload.id = Some(1)

\* request r is the first contact of its client conversation
FirstContact(r) ==
    /\ Arrived(r)
    /\ \A q \in Reqs : (q < r /\ Arrived(q)) => req[q].session # req[r].session

\* no other request of r's conversation is an initialize message
SoleInitialize(r) ==
    \A q \in Reqs \ {r} : req[q].session = req[r].session => ~IsInitialize(q)

\* C13: every client conversation obtains a session on its first contact:
\* when the first request of a conversation is its one initialize message
\* and the engine has answered it, the answer announces a session id.
C13_SessionOnFirstContact ==
    \A r \in Reqs :
        (FirstContact(r) /\ IsInitialize(r) /\ SoleInitialize(r) /\ HeadersSent(r)) =>
            issued[r] # Undefined

====
